---- MODULE Spec2Model ----
(***************************************************************************)
(* ChthollyTree<T> (src/src/lib.rs): a sequence stored as runs             *)
(* start -> (end, value) in a BTreeMap keyed by run start, plus its        *)
(* logical length.                                                         *)
(***************************************************************************)
EXTENDS Integers, Sequences, FiniteSets

\* ---------------------------------------------------------------- bounds
\* longest sequence built by push / from_iter
MaxLen == 3
\* element values are 1..MaxVal
MaxVal == 2
\* most assign calls made in a run that counts its calls
MaxAssigns == 2

Vals == 1..MaxVal
\* indices a caller may pass: everything in range plus out-of-range ones
Idx == 0..(MaxLen + 1)

\* ------------------------------------------------------------ Option<T>
None == << >>
Some(x) == << x >>

\* ------------------------------------------------- std::ops::RangeBounds
Included(n) == [kind |-> "Included", n |-> n]
Excluded(n) == [kind |-> "Excluded", n |-> n]
Unbounded == [kind |-> "Unbounded", n |-> 0]
Bound == {Included(n) : n \in Idx} \cup {Excluded(n) : n \in Idx} \cup {Unbounded}
\* a RangeBounds<usize> value: its start_bound() and end_bound()
Ranges == [start : Bound, end : Bound]
\* the range expression a..b
HalfOpen(a, b) == [start |-> Included(a), end |-> Excluded(b)]
\* the range expression a..=b
Closed(a, b) == [start |-> Included(a), end |-> Included(b)]
\* the range expression ..
Full == [start |-> Unbounded, end |-> Unbounded]

\* ------------------------------------------- BTreeMap<usize, (usize, T)>
EmptyMap == << >>
MaxKey(S) == CHOOSE k \in S : \A j \in S : j <= k
MinKey(S) == CHOOSE k \in S : \A j \in S : k <= j
\* BTreeMap::insert (replaces the entry of an existing key)
Insert(m, k, e) == [x \in (DOMAIN m) \cup {k} |-> IF x = k THEN e ELSE m[x]]
\* BTreeMap::remove
Remove(m, k) == [x \in (DOMAIN m) \ {k} |-> m[x]]
\* the keys of S in the map's iteration order (ascending)
RECURSIVE KeysAsc(_)
KeysAsc(S) == IF S = {} THEN << >>
              ELSE << MinKey(S) >> \o KeysAsc(S \ {MinKey(S)})
\* BTreeMap::range(lo..hi): the keys lo <= k < hi
KeysIn(m, lo, hi) == {k \in DOMAIN m : lo <= k /\ k < hi}

\* ------------------------------------------------------- ChthollyTree<T>
Tree(m, n) == [inner |-> m, len |-> n]

new == Tree(EmptyMap, 0)

\* push with the length left alone
push_no_len(t, value) ==
    IF DOMAIN t.inner # {} /\ t.inner[MaxKey(DOMAIN t.inner)][2] = value
    THEN Tree([t.inner EXCEPT ![MaxKey(DOMAIN t.inner)][1] = @ + 1], t.len)
    ELSE Tree(Insert(t.inner, t.len, << t.len + 1, value >>), t.len)

\* push that never extends the last run
push_no_merge(t, value) ==
    Tree(Insert(t.inner, t.len, << t.len + 1, value >>), t.len + 1)

push(t, value) ==
    IF DOMAIN t.inner # {} /\ t.inner[MaxKey(DOMAIN t.inner)][2] = value
    THEN Tree([t.inner EXCEPT ![MaxKey(DOMAIN t.inner)][1] = @ + 1], t.len + 1)
    ELSE Tree(Insert(t.inner, t.len, << t.len + 1, value >>), t.len + 1)

\* outcome of a call that may panic: the map as the call left it
Done(m) == [inner |-> m, panic |-> FALSE]
Panic(m) == [inner |-> m, panic |-> TRUE]

\* split that inserts the right half without shrinking the left one
split_keep_end(t, at, dbg) ==
    IF dbg /\ ~(at < t.len) THEN Panic(t.inner)
    ELSE IF at = 0 THEN Done(t.inner)
    ELSE LET below == {k \in DOMAIN t.inner : k <= at} IN
         IF below = {} THEN Panic(t.inner)
         ELSE LET k == MaxKey(below)
                  rb == t.inner[k][1]
                  value == t.inner[k][2]
              IN  IF at # rb
                  THEN Done(Insert(t.inner, at, << rb, value >>))
                  ELSE Done(t.inner)

\* split that takes the first entry of range_mut(..=at) (next for next_back)
split_first(t, at, dbg) ==
    IF dbg /\ ~(at < t.len) THEN Panic(t.inner)
    ELSE IF at = 0 THEN Done(t.inner)
    ELSE LET below == {k \in DOMAIN t.inner : k <= at} IN
         IF below = {} THEN Panic(t.inner)
         ELSE LET k == MinKey(below)
                  rb == t.inner[k][1]
                  value == t.inner[k][2]
              IN  IF at # rb
                  THEN Done(Insert([t.inner EXCEPT ![k] = << at, value >>],
                                   at, << rb, value >>))
                  ELSE Done(t.inner)

\* split that re-keys the run at `at` and loses its left half
split_drop_left(t, at, dbg) ==
    IF dbg /\ ~(at < t.len) THEN Panic(t.inner)
    ELSE IF at = 0 THEN Done(t.inner)
    ELSE LET below == {k \in DOMAIN t.inner : k <= at} IN
         IF below = {} THEN Panic(t.inner)
         ELSE LET k == MaxKey(below)
                  rb == t.inner[k][1]
                  value == t.inner[k][2]
              IN  IF at # rb
                  THEN Done(Insert(Remove(t.inner, k), at, << rb, value >>))
                  ELSE Done(t.inner)

\* dbg: the build has debug assertions on, so debug_assert! is compiled in
split(t, at, dbg) ==
    IF dbg /\ ~(at < t.len) THEN Panic(t.inner)
    ELSE IF at = 0 THEN Done(t.inner)
    ELSE LET below == {k \in DOMAIN t.inner : k <= at} IN
         \* next_back() of an empty range is None: unwrap panics
         IF below = {} THEN Panic(t.inner)
         ELSE LET k == MaxKey(below)
                  rb == t.inner[k][1]
                  value == t.inner[k][2]
              IN  IF at # rb
                  THEN Done(Insert([t.inner EXCEPT ![k] = << at, value >>],
                                   at, << rb, value >>))
                  ELSE Done(t.inner)

\* what split_range hands back: the map, whether it panicked, and the
\* Option<(usize, usize)> it returned
Ranged(m, p, rg) == [inner |-> m, panic |-> p, rg |-> rg]

\* start_bound() as the first index of the range
StartOf(range) ==
    CASE range.start.kind = "Included" -> range.start.n
      [] range.start.kind = "Excluded" -> range.start.n + 1
      [] range.start.kind = "Unbounded" -> 0

\* end_bound() as Option<usize>: None when checked_sub(1) fails
EndOf(range, len_) ==
    CASE range.end.kind = "Included" ->
             IF range.end.n >= 1 THEN Some(range.end.n - 1) ELSE None
      [] range.end.kind = "Excluded" -> Some(range.end.n)
      [] range.end.kind = "Unbounded" -> Some(len_)

\* split_range that lets l = r through (l > r for l >= r)
split_range_gt(t, range, dbg) ==
    LET l == StartOf(range)
        e == EndOf(range, t.len)
    IN  IF e = None THEN Ranged(t.inner, FALSE, None)
        ELSE LET r == e[1] IN
             IF l > r \/ r > t.len THEN Ranged(t.inner, FALSE, None)
             ELSE LET s1 == split(t, l, dbg) IN
                  IF s1.panic THEN Ranged(s1.inner, TRUE, None)
                  ELSE LET s2 == split(Tree(s1.inner, t.len), r, dbg) IN
                       IF s2.panic THEN Ranged(s2.inner, TRUE, None)
                       ELSE Ranged(s2.inner, FALSE, Some(<< l, r >>))

split_range(t, range, dbg) ==
    LET l == StartOf(range)
        e == EndOf(range, t.len)
    IN  IF e = None THEN Ranged(t.inner, FALSE, None)
        ELSE LET r == e[1] IN
             IF l >= r \/ r > t.len THEN Ranged(t.inner, FALSE, None)
             ELSE LET s1 == split(t, l, dbg) IN
                  IF s1.panic THEN Ranged(s1.inner, TRUE, None)
                  ELSE LET s2 == split(Tree(s1.inner, t.len), r, dbg) IN
                       IF s2.panic THEN Ranged(s2.inner, TRUE, None)
                       ELSE Ranged(s2.inner, FALSE, Some(<< l, r >>))

\* remove every key of ks from m
RECURSIVE RemoveAll(_, _)
RemoveAll(m, ks) == IF ks = << >> THEN m
                    ELSE RemoveAll(Remove(m, Head(ks)), Tail(ks))

\* assign that inserts its run one key too far (l + 1 for l)
assign_off_by_one(t, val, range, dbg) ==
    LET sr == split_range(t, range, dbg) IN
    IF sr.panic THEN Panic(sr.inner)
    ELSE IF sr.rg = None THEN Done(sr.inner)
    ELSE LET l == sr.rg[1][1]
             r == sr.rg[1][2]
         IN  IF l + 1 > r THEN Panic(sr.inner)
             ELSE Done(Insert(RemoveAll(sr.inner,
                                        KeysAsc(KeysIn(sr.inner, l + 1, r))),
                              l + 1, << r, val >>))

assign(t, val, range, dbg) ==
    LET sr == split_range(t, range, dbg) IN
    IF sr.panic THEN Panic(sr.inner)
    ELSE IF sr.rg = None THEN Done(sr.inner)
    ELSE LET l == sr.rg[1][1]
             r == sr.rg[1][2]
         IN  \* BTreeMap::range panics when its start is past its end
             IF l + 1 > r THEN Panic(sr.inner)
             ELSE Done(Insert(RemoveAll(sr.inner,
                                        KeysAsc(KeysIn(sr.inner, l + 1, r))),
                              l, << r, val >>))

\* f applied to the value of every entry whose key is in ks
MapValues(m, ks, f) ==
    [k \in DOMAIN m |-> IF k \in ks THEN << m[k][1], f[m[k][2]] >> ELSE m[k]]

map(t, f) == MapValues(t.inner, DOMAIN t.inner, f)

map_range(t, f, range, dbg) ==
    LET sr == split_range(t, range, dbg) IN
    IF sr.panic THEN Panic(sr.inner)
    ELSE IF sr.rg = None THEN Done(sr.inner)
    ELSE LET l == sr.rg[1][1]
             r == sr.rg[1][2]
         IN  IF l > r THEN Panic(sr.inner)
             ELSE Done(MapValues(sr.inner, KeysIn(sr.inner, l, r), f))

\* acc + T::from(repeat).unwrap() * val.clone()
SumStep(acc, repeat, val) == acc + repeat * val

\* fold callback that records every call made to it, in order
Record(acc, repeat, val) == Append(acc, << repeat, val >>)

\* f(acc, repeat, val) for the closures handed to fold and fold_range: the
\* one of sum / range_sum and a caller's recording one
CallFn(f, acc, repeat, val) ==
    IF f = "SumStep" THEN SumStep(acc, repeat, val)
    ELSE Record(acc, repeat, val)

\* Iterator::fold over the entries of m with keys ks (ascending), calling
\* f(acc, r - l, val)
FoldEntries(m, ks, init, f) ==
    LET F[i \in 0..Len(ks)] ==
            IF i = 0 THEN init
            ELSE CallFn(f, F[i - 1], m[ks[i]][1] - ks[i], m[ks[i]][2])
    IN  F[Len(ks)]

fold(t, init, f) ==
    FoldEntries(t.inner, KeysAsc(DOMAIN t.inner), init, f)

\* what fold_range hands back: the map, whether it panicked, and Some(acc)
Folded(m, p, acc) == [inner |-> m, panic |-> p, ret |-> acc]

fold_range(t, init, f, range, dbg) ==
    LET sr == split_range(t, range, dbg) IN
    IF sr.panic THEN Folded(sr.inner, TRUE, None)
    ELSE IF sr.rg = None THEN Folded(sr.inner, FALSE, Some(init))
    ELSE LET l == sr.rg[1][1]
             r == sr.rg[1][2]
         IN  IF l > r THEN Folded(sr.inner, TRUE, None)
             ELSE Folded(sr.inner, FALSE,
                         Some(FoldEntries(sr.inner,
                                          KeysAsc(KeysIn(sr.inner, l, r)),
                                          init, f)))

sum(t) == fold(t, 0, "SumStep")

range_sum(t, range, dbg) == fold_range(t, 0, "SumStep", range, dbg)

from_iter(E) ==
    LET F[i \in 0..Len(E)] == IF i = 0 THEN new ELSE push(F[i - 1], E[i])
    IN  F[Len(E)]

\* ---------------------------------------------------------------- Iter
\* cur: Option<(usize, &T)>; iter: the keys the map iterator has yet to visit
iter(t) == [cur |-> None, iter |-> KeysAsc(DOMAIN t.inner)]

\* next() and the iterator it leaves behind
Yield(item, it) == [item |-> item, it |-> it]

\* next that decrements only an entry it already held
next_no_dec(m, it) ==
    IF it.cur = None \/ it.cur[1][1] = 0
    THEN IF it.iter = << >> THEN Yield(None, it)
         ELSE LET l == Head(it.iter)
                  r == m[l][1]
                  val == m[l][2]
              IN  Yield(Some(val),
                        [cur |-> Some(<< r - l, val >>), iter |-> Tail(it.iter)])
    ELSE Yield(Some(it.cur[1][2]),
               [cur |-> Some(<< it.cur[1][1] - 1, it.cur[1][2] >>),
                iter |-> it.iter])

next(m, it) ==
    IF it.cur = None \/ it.cur[1][1] = 0
    THEN IF it.iter = << >> THEN Yield(None, it)
         ELSE LET l == Head(it.iter)
                  r == m[l][1]
                  val == m[l][2]
              IN  Yield(Some(val),
                        [cur |-> Some(<< r - l - 1, val >>),
                         iter |-> Tail(it.iter)])
    ELSE Yield(Some(it.cur[1][2]),
               [cur |-> Some(<< it.cur[1][1] - 1, it.cur[1][2] >>),
                iter |-> it.iter])

\* Iterator::collect: call next until it returns None
RECURSIVE collect(_, _)
collect(m, it) ==
    LET n == next(m, it) IN
    IF n.item = None THEN << >> ELSE << n.item[1] >> \o collect(m, n.it)

\* tree.iter().collect::<Vec<_>>()
Elems(t) == collect(t.inner, iter(t))

\* ================================================================ state
VARIABLES
    inner,             \* ChthollyTree.inner
    len,               \* ChthollyTree.len
    debug_assertions,  \* the build profile: TRUE when debug_assert! is compiled in
    panicked,          \* the last call panicked; the program is unwinding
    call,              \* the call the caller has just made, with its arguments
    pre,               \* the tree as it was when that call was made
    ret,               \* what that call returned: Some(value), None for ()
    pushed,            \* Some(E) while the tree was built from new() by pushing
                       \* the elements of E in order and nothing else, else None
    counts             \* Some(<< n, m >>) in a run that counts its calls: n push
                       \* and m assign calls were made on new() and no other
                       \* call that takes the tree mutably; None when not counted

vars ==
    << inner, len, debug_assertions, panicked, call, pre, ret, pushed, counts >>

tree == Tree(inner, len)

\* the transforms a caller passes to map / map_range
Rotate == [x \in Vals |-> (x % MaxVal) + 1]
Reset == [x \in Vals |-> 1]
Fns == {Rotate, Reset}

\* the initial accumulators a caller passes to fold / fold_range
Inits == { << >>, << << 0, 0 >> >> }

\* every element sequence a caller may hand to from_iter
SeqsUpTo(n) == UNION {[1..k -> Vals] : k \in 0..n}

Call(op, val, at, range, f, init, elems) ==
    [op |-> op, val |-> val, at |-> at, range |-> range, f |-> f,
     init |-> init, elems |-> elems]
Op(op) == Call(op, 0, 0, Full, Reset, << >>, << >>)

Init ==
    /\ inner = new.inner
    /\ len = new.len
    /\ debug_assertions \in BOOLEAN
    /\ panicked = FALSE
    /\ call = Op("none")
    /\ pre = new
    /\ ret = None
    /\ pushed = Some(<< >>)
    /\ counts = None

\* new(), in a run that counts its push and assign calls
InitCounted ==
    /\ inner = new.inner
    /\ len = new.len
    /\ debug_assertions \in BOOLEAN
    /\ panicked = FALSE
    /\ call = Op("none")
    /\ pre = new
    /\ ret = None
    /\ pushed = Some(<< >>)
    /\ counts = Some(<< 0, 0 >>)

\* split was called outside its documented precondition at < len
ContractBroken == call.op = "split" /\ call.at >= pre.len
\* the caller is between two calls
Running == ~panicked /\ call.op = "none"

Push ==
    /\ Running
    /\ \E value \in Vals :
        /\ len < MaxLen
        /\ inner' = push(tree, value).inner
        /\ len' = push(tree, value).len
        /\ call' = [Op("push") EXCEPT !.val = value]
        /\ pre' = tree
        /\ ret' = None
        /\ pushed' = IF pushed = None THEN None
                   ELSE Some(Append(pushed[1], value))
        /\ counts' = IF counts = None THEN None
                       ELSE Some(<< counts[1][1] + 1, counts[1][2] >>)
        /\ UNCHANGED << debug_assertions, panicked >>

FromIter ==
    /\ Running
    /\ \E E \in SeqsUpTo(MaxLen) :
        /\ inner' = from_iter(E).inner
        /\ len' = from_iter(E).len
        /\ call' = [Op("from_iter") EXCEPT !.elems = E]
        /\ pre' = new
        /\ ret' = None
        /\ pushed' = None
        /\ counts' = None
        /\ UNCHANGED << debug_assertions, panicked >>

\* split(at) called as documented, at < len
Split ==
    /\ Running
    /\ \E at \in Idx :
        /\ at < len
        /\ inner' = split(tree, at, debug_assertions).inner
        /\ panicked' = split(tree, at, debug_assertions).panic
        /\ call' = [Op("split") EXCEPT !.at = at]
        /\ pre' = tree
        /\ ret' = None
        /\ pushed' = None
        /\ counts' = None
        /\ UNCHANGED << len, debug_assertions >>

\* split(at) called with at >= len
SplitOutOfRange ==
    /\ Running
    /\ \E at \in Idx :
        /\ at >= len
        /\ inner' = split(tree, at, debug_assertions).inner
        /\ panicked' = split(tree, at, debug_assertions).panic
        /\ call' = [Op("split") EXCEPT !.at = at]
        /\ pre' = tree
        /\ ret' = None
        /\ pushed' = None
        /\ counts' = None
        /\ UNCHANGED << len, debug_assertions >>

Assign ==
    /\ Running
    /\ IF counts = None THEN TRUE ELSE counts[1][2] < MaxAssigns
    /\ \E val \in Vals, range \in Ranges :
        /\ inner' = assign(tree, val, range, debug_assertions).inner
        /\ panicked' = assign(tree, val, range, debug_assertions).panic
        /\ call' = [Op("assign") EXCEPT !.val = val, !.range = range]
        /\ pre' = tree
        /\ ret' = None
        /\ pushed' = None
        /\ counts' = IF counts = None THEN None
                       ELSE Some(<< counts[1][1], counts[1][2] + 1 >>)
        /\ UNCHANGED << len, debug_assertions >>

Map ==
    /\ Running
    /\ \E f \in Fns :
        /\ inner' = map(tree, f)
        /\ call' = [Op("map") EXCEPT !.f = f]
        /\ pre' = tree
        /\ ret' = None
        /\ pushed' = None
        /\ counts' = None
        /\ UNCHANGED << len, debug_assertions, panicked >>

MapRange ==
    /\ Running
    /\ \E f \in Fns, range \in Ranges :
        /\ inner' = map_range(tree, f, range, debug_assertions).inner
        /\ panicked' = map_range(tree, f, range, debug_assertions).panic
        /\ call' = [Op("map_range") EXCEPT !.f = f, !.range = range]
        /\ pre' = tree
        /\ ret' = None
        /\ pushed' = None
        /\ counts' = None
        /\ UNCHANGED << len, debug_assertions >>

Fold ==
    /\ Running
    /\ \E init \in Inits :
        /\ call' = [Op("fold") EXCEPT !.init = init]
        /\ pre' = tree
        /\ ret' = Some(fold(tree, init, "Record"))
        /\ UNCHANGED << inner, len, debug_assertions, panicked, pushed, counts >>

FoldRange ==
    /\ Running
    /\ \E init \in Inits, range \in Ranges :
        LET res == fold_range(tree, init, "Record", range, debug_assertions) IN
        /\ inner' = res.inner
        /\ panicked' = res.panic
        /\ call' = [Op("fold_range") EXCEPT !.init = init, !.range = range]
        /\ pre' = tree
        /\ ret' = res.ret
        /\ pushed' = None
        /\ counts' = None
        /\ UNCHANGED << len, debug_assertions >>

Sum ==
    /\ Running
    /\ call' = Op("sum")
    /\ pre' = tree
    /\ ret' = Some(sum(tree))
    /\ UNCHANGED << inner, len, debug_assertions, panicked, pushed, counts >>

RangeSum ==
    /\ Running
    /\ \E range \in Ranges :
        LET res == range_sum(tree, range, debug_assertions) IN
        /\ inner' = res.inner
        /\ panicked' = res.panic
        /\ call' = [Op("range_sum") EXCEPT !.range = range]
        /\ pre' = tree
        /\ ret' = res.ret
        /\ pushed' = None
        /\ counts' = None
        /\ UNCHANGED << len, debug_assertions >>

\* tree.iter().collect::<Vec<_>>()
IterCollect ==
    /\ Running
    /\ call' = Op("iter")
    /\ pre' = tree
    /\ ret' = Some(Elems(tree))
    /\ UNCHANGED << inner, len, debug_assertions, panicked, pushed, counts >>

\* the caller is done with the result of its last call and goes on; a run is
\* followed no further than a panic or a call that broke split's precondition
Resume ==
    /\ call.op # "none"
    /\ ~panicked
    /\ ~ContractBroken
    /\ call' = Op("none")
    /\ pre' = new
    /\ ret' = None
    /\ UNCHANGED << inner, len, debug_assertions, panicked, pushed, counts >>

\* every call honours split's precondition
Next ==
    \/ Resume
    \/ Push
    \/ FromIter
    \/ Split
    \/ Assign
    \/ Map
    \/ MapRange
    \/ Fold
    \/ FoldRange
    \/ Sum
    \/ RangeSum
    \/ IterCollect

Spec == Init /\ [][Next]_vars

\* the caller may also call split with at >= len
NextAnyAt == Next \/ SplitOutOfRange

SpecAnyAt == Init /\ [][NextAnyAt]_vars

\* a caller that only pushes and assigns, counting its calls
NextCounted == Resume \/ Push \/ Assign

SpecCounted == InitCounted /\ [][NextCounted]_vars

\* ============================================================ properties
\* the calls that take a range
RangeOps == {"assign", "map_range", "fold_range", "range_sum"}
\* the call was made with the half-open range l..r, 0 <= l < r <= len
HalfOpenIn(l, r) == call.range = HalfOpen(l, r) /\ l < r /\ r <= pre.len
\* s with every index in [l, r) (0-based) set to v
Overwrite(s, l, r, v) ==
    [i \in 1..Len(s) |-> IF l < i /\ i <= r THEN v ELSE s[i]]
\* plain sum of the elements of s at the 0-based indices [l, r)
RECURSIVE SumOf(_, _, _)
SumOf(s, l, r) == IF l >= r THEN 0 ELSE s[r] + SumOf(s, l, r - 1)
\* the number of runs stored
Runs(m) == Cardinality(DOMAIN m)

\* C1: as long as split is only called with at < len, the stored runs
\* partition [0, len): every run has start < end, the first run starts at 0,
\* each run ends where the next one starts, the last run ends at len, and
\* there are no runs iff len = 0.
C1_Partition ==
    LET ks == KeysAsc(DOMAIN inner) IN
    /\ (ks = << >>) <=> (len = 0)
    /\ \A i \in 1..Len(ks) : ks[i] < inner[ks[i]][1]
    /\ ks # << >> => ks[1] = 0 /\ inner[ks[Len(ks)]][1] = len
    /\ \A i \in 1..(Len(ks) - 1) : inner[ks[i]][1] = ks[i + 1]

\* an assign that cut a run at both ends of its range has returned
C1_Witness ==
    /\ call.op = "assign"
    /\ ~panicked
    /\ Runs(inner) = Runs(pre.inner) + 2

\* C2: after assign(v, l..r) with 0 <= l < r <= len the element sequence has
\* v at every index in [l, r), its old element at every other index, and len
\* is unchanged.
C2_Assign ==
    \A l, r \in Idx :
        call.op = "assign" /\ HalfOpenIn(l, r) =>
            /\ ~panicked
            /\ len = pre.len
            /\ Elems(tree) = Overwrite(Elems(pre), l, r, call.val)

\* the first and one-past-last index of the set a range denotes
CanonStart(range) ==
    CASE range.start.kind = "Included" -> range.start.n
      [] range.start.kind = "Excluded" -> range.start.n + 1
      [] range.start.kind = "Unbounded" -> 0
CanonEnd(range, n) ==
    CASE range.end.kind = "Included" -> range.end.n + 1
      [] range.end.kind = "Excluded" -> range.end.n
      [] range.end.kind = "Unbounded" -> n

\* C3: range normalization yields the half-open bounds [l, r) of the index
\* set the range denotes (Included(b) as end gives r = b + 1), and
\* assign(v, a..=b) with a <= b < len sets exactly the elements a through b
\* to v.
C3_Normalization ==
    /\ call.op \in RangeOps =>
           LET sr == split_range(pre, call.range, debug_assertions) IN
           sr.rg # None =>
               sr.rg = Some(<< CanonStart(call.range),
                               CanonEnd(call.range, pre.len) >>)
    /\ \A a, b \in Idx :
           /\ call.op = "assign"
           /\ call.range = Closed(a, b)
           /\ a <= b
           /\ b < pre.len
           => Elems(tree) = Overwrite(Elems(pre), a, b + 1, call.val)

\* C4: split(at) with at >= len is rejected and never proceeds: no such call
\* returns normally having changed the run map, and no state holds a run
\* whose end exceeds len or whose start is not before its end.
C4_SplitRejected ==
    /\ call.op = "split" /\ call.at >= pre.len /\ ~panicked =>
           inner = pre.inner
    /\ \A k \in DOMAIN inner : k < inner[k][1] /\ inner[k][1] <= len

\* C5: iterating the tree that from_iter built from E yields E.
C5_RoundTrip ==
    call.op = "from_iter" => Elems(tree) = call.elems

\* from_iter was given a sequence with a repeated and a changing neighbour
C5_Witness ==
    /\ call.op = "from_iter"
    /\ Len(call.elems) >= 3
    /\ call.elems[1] = call.elems[2]
    /\ call.elems[2] # call.elems[3]

\* C6: sum() is the plain sum of the element sequence, and range_sum(l..r)
\* with 0 <= l < r <= len is the plain sum of the elements at l..r-1.
C6_Sum ==
    /\ call.op = "sum" => ret = Some(SumOf(Elems(pre), 0, pre.len))
    /\ \A l, r \in Idx :
           call.op = "range_sum" /\ HalfOpenIn(l, r) =>
               ~panicked /\ ret = Some(SumOf(Elems(pre), l, r))

\* split_range found the range empty or reaching past the end
Rejected(range, n) ==
    \/ EndOf(range, n) = None
    \/ StartOf(range) >= EndOf(range, n)[1]
    \/ EndOf(range, n)[1] > n

C8_SplitIdempotent ==
    call.op = "split" /\ call.at < pre.len =>
        /\ ~panicked
        /\ call.at = 0 \/ call.at \in DOMAIN pre.inner => inner = pre.inner
        /\ split(tree, call.at, debug_assertions) = Done(inner)

\* split was called on the start of a run that is not the first two
C8_Witness ==
    /\ call.op = "split"
    /\ call.at \in DOMAIN pre.inner
    /\ Cardinality({k \in DOMAIN pre.inner : k < call.at}) >= 2

\* the 0-based indices where a block of equal neighbours of E starts
BlockStarts(E) == {i \in 0..(Len(E) - 1) : i = 0 \/ E[i] # E[i + 1]}
\* the end of the block that starts at i
BlockEnd(E, i) ==
    LET later == {j \in BlockStarts(E) : j > i} IN
    IF later = {} THEN Len(E) ELSE MinKey(later)

\* C9: from_iter(E) builds the run map and len that pushing the elements of
\* E one by one onto an empty tree builds: one run per maximal block of
\* equal neighbours of E, so adjacent runs differ in value and len = |E|.
C9_BulkBuild ==
    /\ pushed # None => tree = from_iter(pushed[1])
    /\ call.op = "from_iter" =>
           /\ len = Len(call.elems)
           /\ DOMAIN inner = BlockStarts(call.elems)
           /\ \A k \in DOMAIN inner :
                  /\ inner[k] = << BlockEnd(call.elems, k), call.elems[k + 1] >>
                  /\ inner[k][1] \in DOMAIN inner =>
                         inner[inner[k][1]][2] # inner[k][2]

\* from_iter merged a block of equal elements and started a run after it
C9_Witness ==
    /\ call.op = "from_iter"
    /\ Len(call.elems) >= 3
    /\ Runs(inner) = 2
    /\ inner[0][1] = 2

\* C10: push(value) increases len by one; it extends the last run when that
\* run holds value and inserts the run [old_len, old_len + 1) otherwise,
\* touching no other run, so the element sequence gains value at its end.
C10_Push ==
    call.op = "push" =>
        LET ks == DOMAIN pre.inner
            last == MaxKey(ks)
        IN  /\ ~panicked
            /\ len = pre.len + 1
            /\ IF ks # {} /\ pre.inner[last][2] = call.val
               THEN /\ DOMAIN inner = ks
                    /\ inner[last] = << pre.inner[last][1] + 1, call.val >>
               ELSE /\ DOMAIN inner = ks \cup {pre.len}
                    /\ pre.len \notin ks
                    /\ inner[pre.len] = << pre.len + 1, call.val >>
            /\ \A k \in ks : k # last => inner[k] = pre.inner[k]
            /\ ks # {} /\ pre.inner[last][2] # call.val =>
                   inner[last] = pre.inner[last]
            /\ Elems(tree) = Append(Elems(pre), call.val)

\* push extended the last of two adjacent runs that hold the same value
C10_Witness ==
    /\ call.op = "push"
    /\ Runs(pre.inner) >= 2
    /\ Runs(inner) = Runs(pre.inner)
    /\ \E k \in DOMAIN pre.inner :
           /\ pre.inner[k][1] = MaxKey(DOMAIN pre.inner)
           /\ pre.inner[k][2] = call.val

\* split_range let the range through: it is not empty and ends within len
Accepted(range, n) == ~Rejected(range, n)

\* C11: on a non-empty in-bounds range split is not invoked for a bound equal
\* to len, so assign, map_range, fold_range and range_sum over a range whose
\* end is len complete normally.
C11_EndAtLen ==
    /\ call.op \in RangeOps
    /\ Accepted(call.range, pre.len)
    /\ EndOf(call.range, pre.len) = Some(pre.len)
    => ~panicked

\* C12: split(at) with 0 < at < len and at strictly inside the run [l, r)
\* holding x replaces that run by [l, at) and [at, r), both holding x, and
\* leaves every other run, len and the element sequence as they were.
C12_SplitInside ==
    /\ call.op = "split"
    /\ 0 < call.at
    /\ call.at < pre.len
    /\ call.at \notin DOMAIN pre.inner
    => LET l == MaxKey({k \in DOMAIN pre.inner : k < call.at})
           r == pre.inner[l][1]
           x == pre.inner[l][2]
       IN  /\ ~panicked
           /\ DOMAIN inner = (DOMAIN pre.inner) \cup {call.at}
           /\ inner[l] = << call.at, x >>
           /\ inner[call.at] = << r, x >>
           /\ \A k \in DOMAIN pre.inner : k # l => inner[k] = pre.inner[k]
           /\ len = pre.len
           /\ Elems(tree) = Elems(pre)

\* split cut a run in two in a tree that holds another run
C12_Witness ==
    /\ call.op = "split"
    /\ ~panicked
    /\ call.at \notin DOMAIN pre.inner
    /\ Runs(pre.inner) >= 2
    /\ Runs(inner) = Runs(pre.inner) + 1

\* C13: after assign(v, l..r) with 0 <= l < r <= len the range [l, r) is
\* covered by the one run l -> (r, v): no run starts inside (l, r) and no
\* run straddles l or r.
C13_SingleRun ==
    \A l, r \in Idx :
        call.op = "assign" /\ HalfOpenIn(l, r) =>
            /\ ~panicked
            /\ l \in DOMAIN inner
            /\ inner[l] = << r, call.val >>
            /\ KeysIn(inner, l + 1, r) = {}
            /\ \A k \in DOMAIN inner :
                   /\ ~(k < l /\ l < inner[k][1])
                   /\ ~(k < r /\ r < inner[k][1])

\* s with f applied to every element at the 0-based indices [l, r)
Mapped(s, l, r, f) ==
    [i \in 1..Len(s) |-> IF l < i /\ i <= r THEN f[s[i]] ELSE s[i]]

\* C14: map_range(f, l..r) with 0 <= l < r <= len turns every element at an
\* index in [l, r) into f of its old value, keeps every element outside
\* [l, r) and len; map(f) applies f once to each run's value and moves no
\* run boundary.
C14_MapRange ==
    /\ \A l, r \in Idx :
           call.op = "map_range" /\ HalfOpenIn(l, r) =>
               /\ ~panicked
               /\ len = pre.len
               /\ Elems(tree) = Mapped(Elems(pre), l, r, call.f)
    /\ call.op = "map" =>
           /\ len = pre.len
           /\ DOMAIN inner = DOMAIN pre.inner
           /\ \A k \in DOMAIN inner :
                  inner[k] = << pre.inner[k][1], call.f[pre.inner[k][2]] >>

\* the calls f(acc, repeat, val) a recording fold made after its initial
\* accumulator init, given the accumulator acc it returned
CallsMade(acc, init) == SubSeq(acc, Len(init) + 1, Len(acc))

\* the calls c visit, one call per run and in ascending order, the runs of m
\* that tile [l, r): call i passes the length and the value of the run that
\* starts where the runs of the calls before it end
Tiles(c, m, l, r) ==
    LET S[i \in 1..(Len(c) + 1)] ==
            IF i = 1 THEN l ELSE S[i - 1] + c[i - 1][1]
    IN  /\ \A i \in 1..Len(c) :
               /\ c[i][1] > 0
               /\ S[i] \in DOMAIN m
               /\ m[S[i]] = << S[i] + c[i][1], c[i][2] >>
        /\ S[Len(c) + 1] = r

\* C15: fold and fold_range call f once per run in ascending order of run
\* start with run_length = end - start and the run's value; fold visits the
\* runs tiling [0, len), fold_range over 0 <= l < r <= len exactly the runs
\* tiling [l, r).
C15_FoldOrder ==
    /\ call.op = "fold" =>
           /\ SubSeq(ret[1], 1, Len(call.init)) = call.init
           /\ Tiles(CallsMade(ret[1], call.init), inner, 0, len)
    /\ \A l, r \in Idx :
           call.op = "fold_range" /\ HalfOpenIn(l, r) =>
               /\ ~panicked
               /\ SubSeq(ret[1], 1, Len(call.init)) = call.init
               /\ Tiles(CallsMade(ret[1], call.init), inner, l, r)

\* the runs of m that contain the index i
RunsAt(m, i) == {k \in DOMAIN m : k <= i /\ i < m[k][1]}
\* the value of the run of m that contains the index i
ValueAt(m, i) == m[CHOOSE k \in RunsAt(m, i) : TRUE][2]

\* C16: iter() yields exactly len values and then ends, the i-th being the
\* value of the one run that contains index i; it leaves the tree as it was,
\* and another iter() on it yields the same sequence from the start.
C16_Iter ==
    call.op = "iter" =>
        /\ Len(ret[1]) = pre.len
        /\ \A i \in 0..(pre.len - 1) :
               /\ Cardinality(RunsAt(pre.inner, i)) = 1
               /\ ret[1][i + 1] = ValueAt(pre.inner, i)
        /\ inner = pre.inner
        /\ len = pre.len
        /\ Elems(tree) = ret[1]

\* iter() ran over a tree with a run longer than one element between runs
\* holding another value
C16_Witness ==
    /\ call.op = "iter"
    /\ Runs(pre.inner) >= 2
    /\ \E k \in DOMAIN pre.inner : pre.inner[k][1] - k >= 2
    /\ \E i, j \in 1..Len(ret[1]) : ret[1][i] # ret[1][j]

\* C17: one assign call adds at most 2 runs (new run starts appear only at
\* the two bounds of its range, the assigned run taking the place of the run
\* that starts at l), one push at most 1; after n push and m assign calls on
\* an empty tree there are at most n + 2m runs.
C17_RunGrowth ==
    /\ call.op = "assign" =>
           /\ Runs(inner) <= Runs(pre.inner) + 2
           /\ Accepted(call.range, pre.len) =>
                  DOMAIN inner \subseteq
                      (DOMAIN pre.inner) \cup {StartOf(call.range),
                                               EndOf(call.range, pre.len)[1]}
           /\ Rejected(call.range, pre.len) => DOMAIN inner = DOMAIN pre.inner
    /\ call.op = "push" => Runs(inner) <= Runs(pre.inner) + 1
    /\ counts # None => Runs(inner) <= counts[1][1] + 2 * counts[1][2]

\* the second counted assign cut a run at both ends of its range
C17_Witness ==
    /\ call.op = "assign"
    /\ ~panicked
    /\ counts = Some(<< MaxLen, 2 >>)
    /\ Runs(inner) = Runs(pre.inner) + 2

\* every call on a tree other than assign
NonAssignOps ==
    {"push", "split", "map", "map_range", "fold", "fold_range", "sum",
     "range_sum", "iter"}
\* two adjacent runs of m hold the same value
AdjacentEqual(m) ==
    \E k \in DOMAIN m :
        m[k][1] \in DOMAIN m /\ m[m[k][1]][2] = m[k][2]

\* C18: only assign destroys runs: push, split, map, map_range, fold,
\* fold_range, sum, range_sum and iter remove no run start from the map, so
\* adjacent runs holding equal values stay apart.
C18_OnlyAssignRemoves ==
    call.op \in NonAssignOps => (DOMAIN pre.inner) \subseteq (DOMAIN inner)

\* a call other than assign cut a run of a tree in which two adjacent runs
\* held the same value, and they still do
C18_Witness ==
    /\ call.op \in NonAssignOps
    /\ AdjacentEqual(pre.inner)
    /\ Runs(inner) > Runs(pre.inner)
    /\ \E k \in DOMAIN pre.inner :
           /\ pre.inner[k][1] \in DOMAIN pre.inner
           /\ pre.inner[pre.inner[k][1]][2] = pre.inner[k][2]
           /\ inner[k] = pre.inner[k]
           /\ inner[pre.inner[k][1]][2] = inner[k][2]

\* C19: fold_range and range_sum leave the element sequence and len as they
\* were for every range; at most the run containing l and the run containing
\* r are cut in two, so at most 2 runs are added and every run start that
\* was there is still there.
C19_FoldRangeFrame ==
    call.op \in {"fold_range", "range_sum"} =>
        /\ len = pre.len
        /\ Elems(tree) = Elems(pre)
        /\ Runs(inner) <= Runs(pre.inner) + 2
        /\ (DOMAIN pre.inner) \subseteq (DOMAIN inner)
        /\ Accepted(call.range, pre.len) =>
               DOMAIN inner \subseteq
                   (DOMAIN pre.inner) \cup {StartOf(call.range),
                                            EndOf(call.range, pre.len)[1]}
        /\ Rejected(call.range, pre.len) => inner = pre.inner

\* range_sum cut a run at both ends of its range and returned
C19_Witness ==
    /\ call.op = "range_sum"
    /\ ~panicked
    /\ Runs(inner) = Runs(pre.inner) + 2

====
